---- MODULE Spec2Model ----
(***************************************************************************)
(* Model of src/main.py: main() prompts for three fields and, when all are *)
(* filled, CatBackup.backup_cats runs one linear workflow: create-folder   *)
(* PUT, image GET, upload-URL GET, byte PUT, metadata GET, local JSON      *)
(* write.  The remote services and the local disk are the environment:     *)
(* every response is drawn from a small set that contains each case the    *)
(* code distinguishes.  The process may be started again (NextRun); only   *)
(* the file backup_info.json survives from one run to the next.            *)
(*                                                                         *)
(* Strings typed by the user are sequences of characters, the image body   *)
(* is a sequence of bytes, a parsed JSON object is a record (a function    *)
(* from its keys).  The file on disk is represented by the document that   *)
(* json.dump serialises, not by its characters.                            *)
(***************************************************************************)
EXTENDS Integers, Sequences, FiniteSets, TLC

\* ---------------------------------------------------------------- bounds
MaxStr == 1          \* longest line the user types at a prompt
MaxBody == 2         \* longest image body, in bytes
MaxRuns == 2         \* how many times the program is started

\* ------------------------------------------------ environment's alphabet
Chars == {" ", "a"}
Byte == {0}
NetErr == 0          \* no status: requests raised a RequestException
NoValue == [kind |-> "None"]

SeqsUpTo(S, n) == UNION {[1..k -> S] : k \in 0..n}
Inputs == SeqsUpTo(Chars, MaxStr)
Bodies == SeqsUpTo(Byte, MaxBody)

FolderStatuses == {NetErr, 200, 201, 409, 401}
ImageStatuses == {NetErr, 200, 300, 404, 500}
PutStatuses == {NetErr, 201, 202, 507}

\* what response.json() can meet: a JSON object, a JSON value that is not an
\* object (a number, null), or a body that is not JSON
Object(o) == [kind |-> "object", obj |-> o]
Scalar == [kind |-> "scalar"]
Invalid == [kind |-> "invalid"]

UploadBodies == {Object([href |-> "url"]), Object([error |-> "e"]), Scalar, Invalid}
InfoObjects ==
    {[size |-> s, path |-> "disk:/p"] : s \in 0..MaxBody}
        \cup {[size |-> s] : s \in 0..MaxBody}
        \cup {[path |-> "disk:/p"]}
InfoBodies == {Object(o) : o \in InfoObjects} \cup {Scalar, Invalid}

NetFail == [kind |-> "neterr"]
UploadResponses == {NetFail} \cup UploadBodies
InfoResponses ==
    {[status |-> NetErr, body |-> Invalid], [status |-> 404, body |-> Invalid]}
        \cup {[status |-> 200, body |-> b] : b \in InfoBodies}

SaveOutcomes == {"ok", "open_error", "dump_error"}

\* ------------------------------------------------------------------ state
VARIABLES
    pc,             \* where the process is
    text,           \* main: text, after strip()
    yandex_token,   \* CatBackup.yandex_token
    group_name,     \* main: group_name, after strip()
    image_content,  \* backup_cats: image_content
    file_info,      \* backup_cats: file_info
    resp,           \* the environment's answer to each request of this run
    log,            \* external actions issued in this run, in order
    stdout,         \* lines printed in this run, in order
    file,           \* backup_info.json on disk
    clock,          \* datetime.now()
    runs,           \* how many times the program was started
    blank_typed,    \* history: a line typed in this run held nothing but blanks
    file_at_start,  \* history: backup_info.json when this run started
    last_saved      \* history: document of the latest write that completed

vars == <<pc, text, yandex_token, group_name, image_content, file_info, resp,
          log, stdout, file, clock, runs, blank_typed, file_at_start, last_saved>>

NoResp == [folder |-> NoValue, image |-> NoValue, upload |-> NoValue,
           put |-> NoValue, info |-> NoValue, save |-> NoValue]

\* backup_info.json: absent, a whole document, or what is left of a write
\* that failed after open(filename, 'w') had truncated the file
NoFile == [kind |-> "absent"]
FullFile(data) == [kind |-> "full", data |-> data]
PartialFile == [kind |-> "partial"]

\* Python values that may be None
Some(v) == [kind |-> "value", v |-> v]
\* bytes: None and b'' are false; dict: None is false (the dictionary that
\* upload_to_yandex returns is never empty)
TruthyBytes(x) == x.kind = "value" /\ x.v # <<>>
TruthyDict(x) == x.kind = "value"

\* ---------------------------------------------------------------- helpers
\* str.strip(): drop leading and trailing whitespace
RECURSIVE LStrip(_)
LStrip(s) == IF s # <<>> /\ Head(s) = " " THEN LStrip(Tail(s)) ELSE s

RECURSIVE RStrip(_)
RStrip(s) ==
    IF s # <<>> /\ s[Len(s)] = " " THEN RStrip(SubSeq(s, 1, Len(s) - 1)) ELSE s

Strip(s) == RStrip(LStrip(s))

\* (variant: the token is not among the fields that are checked)
FieldsMissing_NoToken(t, k, g) == t = <<>> \/ g = <<>>

\* main: if not text or not yandex_token or not group_name
FieldsMissing(t, k, g) == t = <<>> \/ k = <<>> \/ g = <<>>

\* (variant: raise_for_status() is not called)
ImageFetchRaises_NoRaise(status) == status = NetErr

\* requests.get(...) raised, or response.raise_for_status() raises HTTPError:
\* it does so for the 4xx and 5xx status codes only
ImageFetchRaises(status) ==
    status = NetErr \/ (400 <= status /\ status < 600)

\* (variant: every 2xx counts)
FolderReady_Any2xx(status) == status \in {200, 201, 409}

\* create_folder: response.status_code in [201, 409]
FolderReady(status) == status \in {201, 409}

\* upload_to_yandex: 'href' not in upload_data
HasHref(upload_data) == "href" \in DOMAIN upload_data

\* (variant: 202 Accepted counts as stored)
PutCreated_Or202(status) == status \in {201, 202}

\* upload_to_yandex: put_response.status_code == 201
PutCreated(status) == status = 201

\* upload_to_yandex: file_info_response.status_code == 200
InfoFound(status) == status = 200

\* dict.get(key, default)
Get(obj, key, default) == IF key \in DOMAIN obj THEN obj[key] ELSE default

\* (variant: the size defaults to the number of bytes that were sent)
FileInfo_SentSize(file_name, info, now) ==
    [file_name |-> file_name \o <<".jpg">>,
     size |-> Get(info, "size", Len(image_content.v)),
     created |-> now,
     path |-> Get(info, "path", "")]

\* upload_to_yandex: the dictionary it returns
FileInfo(file_name, info, now) ==
    [file_name |-> file_name \o <<".jpg">>,
     size |-> Get(info, "size", 0),
     created |-> now,
     path |-> Get(info, "path", "")]

\* backup_cats: backup_data
BackupData(now, t, g, info) ==
    [backup_info |->
        [timestamp |-> now, text |-> t, group_name |-> g, files |-> <<info>>]]

\* (variant: the new entry is added to the entries already in the file)
WriteFile_Merge(old, data, outcome) ==
    CASE outcome = "ok" ->
            IF old.kind = "full"
            THEN FullFile([data EXCEPT !.backup_info.files =
                            old.data.backup_info.files \o @])
            ELSE FullFile(data)
      [] outcome = "open_error" -> old
      [] outcome = "dump_error" -> PartialFile

\* save_to_json: open(filename, 'w') replaces the file; when open fails the
\* file is untouched, when json.dump fails the truncated file stays behind
WriteFile(old, data, outcome) ==
    CASE outcome = "ok" -> FullFile(data)
      [] outcome = "open_error" -> old
      [] outcome = "dump_error" -> PartialFile

\* (variant: the result of create_folder is ignored)
AfterCreateFolder_Ignore(ok) == "get_image"

\* (variant: a failed create_folder is tried again, twice at most)
AfterCreateFolder_Retry(ok) ==
    IF ok THEN "get_image" ELSE IF Len(log) < 2 THEN "create_folder" ELSE "done"

\* backup_cats: if not self.create_folder(group_name): return
AfterCreateFolder(ok) == IF ok THEN "get_image" ELSE "done"

\* (variant: only None is tested, an empty body goes on)
AfterGetImage_NoneOnly(content) ==
    IF content.kind = "value" THEN "upload_url" ELSE "done"

\* backup_cats: if not image_content: ... return
AfterGetImage(content) == IF TruthyBytes(content) THEN "upload_url" ELSE "done"

\* ----------------------------------------------------------------- methods
\* CatBackup.create_folder: its return value and what it prints
create_folder(status) ==
    IF status = NetErr THEN [ret |-> FALSE, out |-> <<"folder_exception">>]
    ELSE IF FolderReady(status) THEN [ret |-> TRUE, out |-> <<"folder_ready">>]
    ELSE [ret |-> FALSE, out |-> <<"folder_error">>]

\* CatBackup.get_cat_image
get_cat_image(status, body) ==
    IF ImageFetchRaises(status)
    THEN [ret |-> NoValue, out |-> <<"image_exception">>]
    ELSE [ret |-> Some(body), out |-> <<>>]

\* CatBackup.save_to_json: the file it leaves and what it prints
save_to_json(old, data, outcome) ==
    [file |-> WriteFile(old, data, outcome),
     out |-> IF outcome = "ok" THEN <<"saved">> ELSE <<"save_exception">>]

\* --------------------------------------------------------------- behaviour
Init ==
    /\ pc = "main"
    /\ text = <<>>
    /\ yandex_token = <<>>
    /\ group_name = <<>>
    /\ image_content = NoValue
    /\ file_info = NoValue
    /\ resp = NoResp
    /\ log = <<>>
    /\ stdout = <<>>
    /\ file = NoFile
    /\ clock = 0
    /\ runs = 1
    /\ blank_typed = FALSE
    /\ file_at_start = NoFile
    /\ last_saved = NoValue

IsBlank(s) == \A i \in 1..Len(s) : s[i] = " "

\* main(): three prompts, the check of the fields, CatBackup(yandex_token) and
\* the first line of backup_cats
Main ==
    /\ pc = "main"
    /\ \E t \in Inputs, k \in Inputs, g \in Inputs :
        /\ blank_typed' = (IsBlank(t) \/ IsBlank(k) \/ IsBlank(g))
        /\ IF FieldsMissing(Strip(t), Strip(k), Strip(g))
           THEN /\ stdout' = <<"banner", "fields_error">>
                /\ pc' = "done"
                /\ UNCHANGED <<text, yandex_token, group_name>>
           ELSE /\ text' = Strip(t)
                /\ yandex_token' = Strip(k)
                /\ group_name' = Strip(g)
                /\ stdout' = <<"banner", "start">>
                /\ pc' = "create_folder"
    /\ UNCHANGED <<image_content, file_info, resp, log, file, clock, runs,
                   file_at_start, last_saved>>

\* backup_cats: create_folder(group_name) and the test of its result
CreateFolder ==
    /\ pc = "create_folder"
    /\ \E status \in FolderStatuses :
        LET r == create_folder(status) IN
        /\ resp' = [resp EXCEPT !.folder = Some(status)]
        /\ log' = Append(log, "folder_put")
        /\ pc' = AfterCreateFolder(r.ret)
        /\ stdout' = stdout \o r.out
                \o (IF AfterCreateFolder(r.ret) = "done" THEN <<>> ELSE <<"getting_image">>)
    /\ UNCHANGED <<text, yandex_token, group_name, image_content, file_info,
                   file, clock, runs, blank_typed, file_at_start, last_saved>>

\* backup_cats: get_cat_image(text) and the test of its result
GetCatImage ==
    /\ pc = "get_image"
    /\ \E status \in ImageStatuses, body \in Bodies :
        LET r == get_cat_image(status, body) IN
        /\ resp' = [resp EXCEPT !.image = Some([status |-> status, body |-> body])]
        /\ log' = Append(log, "image_get")
        /\ image_content' = r.ret
        /\ pc' = AfterGetImage(r.ret)
        /\ stdout' = stdout \o r.out
                \o (IF AfterGetImage(r.ret) = "done"
                    THEN <<"image_failed">> ELSE <<"uploading">>)
    /\ UNCHANGED <<text, yandex_token, group_name, file_info, file, clock, runs,
                   blank_typed, file_at_start, last_saved>>

\* backup_cats: the else branch of "if file_info"
Failed(out) == [next |-> "done", out |-> out \o <<"finished_with_errors">>]

\* an exception that is no RequestException leaves upload_to_yandex and
\* backup_cats; nothing is printed on standard output
Crashed == [next |-> "crashed", out |-> <<>>]

\* upload_to_yandex, lines 74-85: the request for the upload URL.  A body
\* that is not JSON makes response.json() raise requests' JSONDecodeError, a
\* RequestException, which line 107 catches; a JSON value that is no object
\* makes "'href' not in upload_data" raise TypeError, which nothing catches
upload_url_step(r) ==
    CASE r.kind \in {"neterr", "invalid"} -> Failed(<<"upload_exception">>)
      [] r.kind = "scalar" -> Crashed
      [] r.kind = "object" ->
            IF HasHref(r.obj) THEN [next |-> "upload_put", out |-> <<>>]
            ELSE Failed(<<"url_error">>)

\* upload_to_yandex, lines 86-88 and 104-105: the PUT of the bytes
upload_put_step(status) ==
    IF status = NetErr THEN Failed(<<"upload_exception">>)
    ELSE IF PutCreated(status) THEN [next |-> "upload_info", out |-> <<>>]
    ELSE Failed(<<"upload_error">>)

\* upload_to_yandex, lines 90-105: the request for the stored file's
\* metadata; file_info.get raises AttributeError on a value that is no object
upload_info_step(r) ==
    IF r.status = NetErr THEN Failed(<<"upload_exception">>)
    ELSE IF InfoFound(r.status)
    THEN CASE r.body.kind = "invalid" -> Failed(<<"upload_exception">>)
           [] r.body.kind = "scalar" -> Crashed
           [] r.body.kind = "object" -> [next |-> "save", out |-> <<>>]
    ELSE Failed(<<"upload_error">>)

UploadUrl ==
    /\ pc = "upload_url"
    /\ \E r \in UploadResponses :
        LET s == upload_url_step(r) IN
        /\ resp' = [resp EXCEPT !.upload = Some(r)]
        /\ log' = Append(log, "url_get")
        /\ pc' = s.next
        /\ stdout' = stdout \o s.out
    /\ UNCHANGED <<text, yandex_token, group_name, image_content, file_info,
                   file, clock, runs, blank_typed, file_at_start, last_saved>>

UploadPut ==
    /\ pc = "upload_put"
    /\ \E status \in PutStatuses :
        LET s == upload_put_step(status) IN
        /\ resp' = [resp EXCEPT
                        !.put = Some([status |-> status, data |-> image_content.v])]
        /\ log' = Append(log, "byte_put")
        /\ pc' = s.next
        /\ stdout' = stdout \o s.out
    /\ UNCHANGED <<text, yandex_token, group_name, image_content, file_info,
                   file, clock, runs, blank_typed, file_at_start, last_saved>>

UploadInfo ==
    /\ pc = "upload_info"
    /\ \E r \in InfoResponses :
        LET s == upload_info_step(r) IN
        /\ resp' = [resp EXCEPT !.info = Some(r)]
        /\ log' = Append(log, "meta_get")
        /\ pc' = s.next
        /\ stdout' = stdout \o s.out
        /\ IF s.next = "save"
           THEN /\ file_info' = Some(FileInfo(text, r.body.obj, clock))
                /\ clock' = clock + 1
           ELSE UNCHANGED <<file_info, clock>>
    /\ UNCHANGED <<text, yandex_token, group_name, image_content, file, runs,
                   blank_typed, file_at_start, last_saved>>

\* backup_cats, lines 150-163: the record, save_to_json and the last prints
SaveToJson ==
    /\ pc = "save"
    /\ TruthyDict(file_info)
    /\ \E outcome \in SaveOutcomes :
        LET data == BackupData(clock, text, group_name, file_info.v)
            r == save_to_json(file, data, outcome)
        IN
        /\ resp' = [resp EXCEPT !.save = Some(outcome)]
        /\ log' = Append(log, "json_write")
        /\ file' = r.file
        /\ last_saved' = IF outcome = "ok" THEN Some(data) ELSE last_saved
        /\ stdout' = stdout \o r.out \o <<"success", "size">>
    /\ clock' = clock + 1
    /\ pc' = "done"
    /\ UNCHANGED <<text, yandex_token, group_name, image_content, file_info,
                   runs, blank_typed, file_at_start>>

\* the program is started again; only the disk (and time) carry over
NextRun ==
    /\ pc \in {"done", "crashed"}
    /\ runs < MaxRuns
    /\ runs' = runs + 1
    /\ pc' = "main"
    /\ text' = <<>>
    /\ yandex_token' = <<>>
    /\ group_name' = <<>>
    /\ image_content' = NoValue
    /\ file_info' = NoValue
    /\ resp' = NoResp
    /\ log' = <<>>
    /\ stdout' = <<>>
    /\ blank_typed' = FALSE
    /\ file_at_start' = file
    /\ UNCHANGED <<file, clock, last_saved>>

Next ==
    \/ Main
    \/ CreateFolder
    \/ GetCatImage
    \/ UploadUrl
    \/ UploadPut
    \/ UploadInfo
    \/ SaveToJson
    \/ NextRun

Spec == Init /\ [][Next]_vars

\* ------------------------------------------------------------------ claims
Issued(a) == \E i \in 1..Len(log) : log[i] = a
Count(a) == Cardinality({i \in 1..Len(log) : log[i] = a})
Printed(m) == \E i \in 1..Len(stdout) : stdout[i] = m
Answered(r) == r.kind = "value"

Order == <<"folder_put", "image_get", "url_get", "byte_put", "meta_get",
           "json_write">>

\* what each answer of the environment amounts to, read off the answer itself
FolderSucceeded == Answered(resp.folder) /\ resp.folder.v \in {201, 409}
ImageErrored ==
    /\ Answered(resp.image)
    /\ \/ resp.image.v.status = NetErr
       \/ resp.image.v.status \in 400..599
ImageFetched ==
    Answered(resp.image) /\ ~ImageErrored /\ resp.image.v.body # <<>>
UrlSucceeded ==
    /\ Answered(resp.upload)
    /\ resp.upload.v.kind = "object"
    /\ "href" \in DOMAIN resp.upload.v.obj
PutSucceeded == Answered(resp.put) /\ resp.put.v.status = 201
InfoSucceeded ==
    /\ Answered(resp.info)
    /\ resp.info.v.status = 200
    /\ resp.info.v.body.kind = "object"
SaveSucceeded == Answered(resp.save) /\ resp.save.v = "ok"

Succeeded(a) ==
    CASE a = "folder_put" -> FolderSucceeded
      [] a = "image_get" -> ImageFetched
      [] a = "url_get" -> UrlSucceeded
      [] a = "byte_put" -> PutSucceeded
      [] a = "meta_get" -> InfoSucceeded
      [] a = "json_write" -> SaveSucceeded

NothingUploadedOrWritten ==
    /\ ~Issued("url_get")
    /\ ~Issued("byte_put")
    /\ ~Issued("meta_get")
    /\ ~Issued("json_write")
    /\ file = file_at_start

\* C1: the external actions of a run occur only in the order create-folder
\* PUT, image GET, upload-URL GET, byte PUT, metadata GET, local JSON write,
\* and an action is issued only if the one before it succeeded (for the image
\* GET: no error was raised and the body is not empty), so nothing is issued
\* after the first failing action.
C1_OrderedShortCircuit ==
    /\ Len(log) <= Len(Order)
    /\ \A i \in 1..Len(log) : log[i] = Order[i]
    /\ \A i \in 2..Len(log) : Succeeded(Order[i - 1])

C1_Witness == log = Order /\ pc = "done"

\* C2: create_folder reports success exactly when the answer is 201 or 409;
\* for any other status and for a network error it reports failure and the
\* run halts: no image is fetched, nothing is uploaded, no file is written.
C2_FolderSuccessIff201Or409 ==
    Answered(resp.folder) =>
        /\ Printed("folder_ready") <=> resp.folder.v \in {201, 409}
        /\ resp.folder.v \in {201, 409} =>
                Printed("getting_image") /\ (pc = "get_image" \/ Issued("image_get"))
        /\ resp.folder.v \notin {201, 409} =>
                /\ pc = "done"
                /\ log = <<"folder_put">>
                /\ file = file_at_start
                /\ Printed("folder_error") \/ Printed("folder_exception")

C2_Witness ==
    /\ Answered(resp.folder)
    /\ resp.folder.v = 200
    /\ pc = "done"
    /\ file_at_start.kind = "full"

\* C3 as stated: when the image fetch ends in a network error or in a status
\* outside 200..299, get_cat_image yields no image (None, or no bytes at
\* all), nothing is sent to the upload endpoints and no file is written.
C3_NonSuccessStatusYieldsNothing ==
    (Answered(resp.image) /\
        (resp.image.v.status = NetErr \/ resp.image.v.status \notin 200..299)) =>
            /\ ~TruthyBytes(image_content)
            /\ NothingUploadedOrWritten

\* C3 amended: when the image fetch ends in a network error or in a 4xx or
\* 5xx status, get_cat_image yields nothing, the run halts, nothing is sent
\* to the upload endpoints and no file is written.
C3_ErrorStatusYieldsNothing ==
    ImageErrored =>
        /\ image_content = NoValue
        /\ pc = "done"
        /\ Printed("image_exception")
        /\ NothingUploadedOrWritten

C3_Witness ==
    /\ Answered(resp.image)
    /\ resp.image.v.status = 404
    /\ resp.image.v.body # <<>>
    /\ pc = "done"
    /\ file_at_start.kind = "full"

AllStepsSucceeded ==
    /\ FolderSucceeded
    /\ ImageFetched
    /\ UrlSucceeded
    /\ PutSucceeded
    /\ InfoSucceeded
    /\ SaveSucceeded

Entries == file.data.backup_info.files

\* C4 as stated: a successful run leaves one JSON document with exactly one
\* entry in 'files', and the entry's size is the number of bytes that were
\* PUT, whatever the metadata answer was.
C4_SizeIsSentLength ==
    (pc = "done" /\ AllStepsSucceeded) =>
        /\ file.kind = "full"
        /\ Len(Entries) = 1
        /\ Entries[1].size = Len(resp.put.v.data)

\* C4 amended: a run in which every step succeeds, the local write included,
\* leaves one JSON document with exactly one entry in 'files', and the
\* entry's size is the 'size' of the metadata answer, or 0 when the answer
\* has no 'size'.
C4_SizeIsReportedSize ==
    (pc = "done" /\ AllStepsSucceeded) =>
        /\ file.kind = "full"
        /\ Len(Entries) = 1
        /\ Entries[1].size =
                (IF "size" \in DOMAIN resp.info.v.body.obj
                 THEN resp.info.v.body.obj.size ELSE 0)

C4_Witness ==
    /\ pc = "done"
    /\ AllStepsSucceeded
    /\ "size" \notin DOMAIN resp.info.v.body.obj
    /\ Len(resp.put.v.data) = 2

UploadEnded ==
    Issued("url_get") /\ pc \in {"save", "done", "crashed"}

FolderFailed == Answered(resp.folder) /\ ~FolderSucceeded
ImageFailed == Answered(resp.image) /\ ~ImageFetched
UrlFailed == Answered(resp.upload) /\ ~UrlSucceeded
PutFailed == Answered(resp.put) /\ ~PutSucceeded
InfoFailed == Answered(resp.info) /\ ~InfoSucceeded
SaveFailed == Answered(resp.save) /\ ~SaveSucceeded

\* C6: every failure of a step (folder creation, image fetch, upload-URL
\* request, byte PUT, metadata GET, local file write) is caught inside the
\* run, prints a message on standard output and ends the run: no further step
\* is performed and the success message is never printed.
C6_FailureCaughtReportedAndFinal ==
    /\ FolderFailed =>
            (Printed("folder_error") \/ Printed("folder_exception"))
    /\ ImageFailed => Printed("image_failed")
    /\ (UrlFailed \/ PutFailed \/ InfoFailed) =>
            (Printed("url_error") \/ Printed("upload_error")
                \/ Printed("upload_exception"))
    /\ SaveFailed => Printed("save_exception")
    /\ (FolderFailed \/ ImageFailed \/ UrlFailed \/ PutFailed \/ InfoFailed
            \/ SaveFailed) =>
            /\ pc = "done"
            /\ ~Succeeded(log[Len(log)])
            /\ ~Printed("success")

\* C7: within one run no request is issued twice, neither after a failure
\* nor after a success.
C7_EachRequestAtMostOnce ==
    \A a \in {"folder_put", "image_get", "url_get", "byte_put", "meta_get"} :
        Count(a) <= 1

C7_Witness ==
    /\ pc = "done"
    /\ Count("folder_put") = 1
    /\ Count("image_get") = 1
    /\ Count("url_get") = 1
    /\ Count("byte_put") = 1
    /\ PutFailed

\* C8 as stated: after any sequence of runs backup_info.json holds exactly
\* the record of the most recent run whose write succeeded.
C8_FileIsLastSavedRecord ==
    Answered(last_saved) => file = FullFile(last_saved.v)

\* C8 amended: backup_info.json is absent as long as no write was completed;
\* a whole document in it is exactly the record of the most recent write that
\* completed, with one entry in 'files' (never a merge with earlier records);
\* otherwise it is the truncated remainder of a later write that failed.
C8_FileIsLastSavedOrTruncated ==
    /\ file.kind = "absent" => last_saved = NoValue
    /\ file.kind = "full" =>
            /\ Answered(last_saved)
            /\ file.data = last_saved.v
            /\ Len(Entries) = 1
    /\ file.kind \in {"absent", "full", "partial"}
    /\ (pc = "done" /\ SaveSucceeded) => file.kind = "full"
    /\ (pc = "done" /\ Answered(resp.save) /\ resp.save.v = "open_error") =>
            file = file_at_start

C8_Witness ==
    /\ pc = "done"
    /\ SaveSucceeded
    /\ file_at_start.kind = "full"
    /\ file # file_at_start

\* C9: backup_info.json is written only in a run in which the folder request
\* was answered 201 or 409, a non-empty image was fetched, the byte PUT was
\* answered 201 and the metadata GET 200; a run that fails earlier (also on a
\* 2xx image answer with an empty body) leaves the file as it found it.
C9_WriteOnlyAfterAllRequests ==
    (Issued("json_write") \/ file # file_at_start) =>
        /\ FolderSucceeded
        /\ Answered(resp.image) /\ resp.image.v.body # <<>>
        /\ Answered(resp.put) /\ resp.put.v.data # <<>>
        /\ PutSucceeded
        /\ InfoSucceeded

C9_Witness ==
    /\ pc = "done"
    /\ Answered(resp.image)
    /\ resp.image.v.status = 200
    /\ resp.image.v.body = <<>>
    /\ file_at_start.kind = "full"
    /\ file = file_at_start

\* C10: main starts a backup only when caption text, token and folder name
\* all hold something besides whitespace; when one of them does not, it
\* prints an error, issues no request and writes no file.
C10_BlankFieldStopsMain ==
    pc # "main" =>
        /\ blank_typed <=> Printed("fields_error")
        /\ blank_typed =>
                /\ pc = "done"
                /\ ~Printed("start")
                /\ log = <<>>
                /\ file = file_at_start
        /\ ~blank_typed =>
                /\ Printed("start")
                /\ text # <<>> /\ yandex_token # <<>> /\ group_name # <<>>

C10_Witness ==
    /\ blank_typed
    /\ pc = "done"
    /\ file_at_start.kind = "full"

====
